---- MODULE Spec2Model ----
(***************************************************************************)
(* Model of rc-sim: the flight simulator (lib/simulator.py) driven by a    *)
(* fitted linear model file, and the fitting script (build_full_model.py). *)
(*                                                                         *)
(* Python floats are modelled in fixed point:                              *)
(*   physical quantities and matrix entries  1/100   (10.0 m/s = 1000)     *)
(*   angles and angular rates                1/1000  (radians, rad/s)      *)
(*   sines and cosines                       1/1000                        *)
(*   time and dt                             1/1000  (seconds)             *)
(* Division truncates toward zero.  NaN is a reserved value that           *)
(* propagates through arithmetic and makes every comparison false, as in   *)
(* IEEE-754 / numpy.                                                       *)
(***************************************************************************)
EXTENDS Integers, Sequences, FiniteSets, TLC

VARIABLES
    sim,    \* the Simulator's attributes
    sm,     \* its StateManager
    exc,    \* the exception the last call raised, "none" if it returned
    out,    \* what the last call showed: branch taken, printed, returned
    op,     \* the last call made on the Simulator
    since,  \* the calls made since the last reset, oldest first
    made,   \* load, reset and trim calls made so far (the driver's budget)
    fit     \* the fitting script (build_full_model.py)

vars == <<sim, sm, exc, out, op, since, made, fit>>

\* ---------------------------------------------------------------- bounds
MaxUpdates == 2
MaxCalls == 3
MaxRecords == 3

\* ------------------------------------------------- optional values (None)
None == <<>>
Some(v) == <<v>>
IsNone(o) == o = <<>>
Get(o) == o[1]

\* ------------------------------------------------------- float arithmetic
NaN == 0 - 1000000000

IsNaN(a) == a = NaN

Abs(a) == IF a < 0 THEN 0 - a ELSE a

Sign(a) == IF a > 0 THEN 1 ELSE IF a < 0 THEN 0 - 1 ELSE 0

Quot(a, b) == Sign(a) * Sign(b) * (Abs(a) \div Abs(b))

FAdd(a, b) == IF IsNaN(a) \/ IsNaN(b) THEN NaN ELSE a + b

FNeg(a) == IF IsNaN(a) THEN NaN ELSE 0 - a

FSub(a, b) == FAdd(a, FNeg(b))

FAbs(a) == IF IsNaN(a) THEN NaN ELSE Abs(a)

\* a * b / scale
FMul(a, b, scale) == IF IsNaN(a) \/ IsNaN(b) THEN NaN ELSE Quot(a * b, scale)

FLt(a, b) == ~IsNaN(a) /\ ~IsNaN(b) /\ a < b

FGt(a, b) == FLt(b, a)

\* a / b scaled by scale; x/0 is +-Inf and 0/0 is NaN
Inf == 999999999

FDiv(a, b, scale) ==
    IF IsNaN(a) \/ IsNaN(b) THEN NaN
    ELSE IF b = 0 THEN (IF a = 0 THEN NaN ELSE Sign(a) * Inf)
    ELSE Quot(a * scale, b)

\* integer square root (floor)
RECURSIVE SqrtIter(_, _, _)
SqrtIter(n, lo, hi) ==
    IF lo >= hi THEN lo
    ELSE LET mid == (lo + hi + 1) \div 2
         IN IF mid * mid <= n THEN SqrtIter(n, mid, hi) ELSE SqrtIter(n, lo, mid - 1)

Sqrt(n) == SqrtIter(n, 0, 40000)

\* np.linalg.norm of a 3-vector
Norm3(x, y, z) ==
    IF IsNaN(x) \/ IsNaN(y) \/ IsNaN(z) THEN NaN ELSE Sqrt(x * x + y * y + z * z)

\* ------------------------------------------------------------ trigonometry
Pi == 3142
HalfPi == 1571

\* sine of an angle in [0, pi/2], Taylor polynomial to x^7
SinQ(x) ==
    LET x2 == (x * x) \div 1000
        x3 == (x2 * x) \div 1000
        x5 == (x3 * x2) \div 1000
        x7 == (x5 * x2) \div 1000
        s  == x - (x3 \div 6) + (x5 \div 120) - (x7 \div 5040)
    IN IF s > 1000 THEN 1000 ELSE IF s < 0 THEN 0 ELSE s

\* angle reduced to (-pi, pi]
Wrap(x) ==
    LET m == x % (2 * Pi)
    IN IF m > Pi THEN m - 2 * Pi ELSE m

sin(x) ==
    IF IsNaN(x) THEN NaN
    ELSE LET w == Wrap(x)
             a == Abs(w)
             q == IF a > HalfPi THEN Pi - a ELSE a
         IN Sign(w) * SinQ(q)

cos(x) == IF IsNaN(x) THEN NaN ELSE sin(x + HalfPi)

\* largest k in lo..hi with SinQ(k) <= m
RECURSIVE AsinIter(_, _, _)
AsinIter(m, lo, hi) ==
    IF lo >= hi THEN lo
    ELSE LET mid == (lo + hi + 1) \div 2
         IN IF SinQ(mid) <= m THEN AsinIter(m, mid, hi) ELSE AsinIter(m, lo, mid - 1)

\* asin of a value in [-1000, 1000]; result in [-pi/2, pi/2]
asin(s) ==
    IF IsNaN(s) THEN NaN ELSE Sign(s) * AsinIter(Abs(s), 0, HalfPi)

\* largest k in lo..hi with tan(k) <= ay / ax
RECURSIVE AtanIter(_, _, _, _)
AtanIter(ay, ax, lo, hi) ==
    IF lo >= hi THEN lo
    ELSE LET mid == (lo + hi + 1) \div 2
         IN IF SinQ(mid) * ax <= SinQ(HalfPi - mid) * ay
            THEN AtanIter(ay, ax, mid, hi) ELSE AtanIter(ay, ax, lo, mid - 1)

\* atan2(y, x), result in (-pi, pi]
atan2(y, x) ==
    IF IsNaN(y) \/ IsNaN(x) THEN NaN
    ELSE IF x = 0 /\ y = 0 THEN 0
    ELSE LET a  == AtanIter(Abs(y), Abs(x), 0, HalfPi)
             sy == IF y < 0 THEN 0 - 1 ELSE 1
         IN IF x > 0 THEN sy * a
            ELSE IF x < 0 THEN sy * (Pi - a)
            ELSE sy * HalfPi

\* ------------------------------------------------------------- model files
\* One entry of the "parameters" list of a model file.  noise is None when
\* the entry has no "noise" key, else Some(list of <<frequency, amplitude>>)
\* with frequency in 1/100 Hz.
Param(name, type, lo, hi, noise) ==
    [name |-> name, type |-> type, min |-> lo, max |-> hi, noise |-> noise]

Ind(name) == Param(name, "independent", 0 - 100000, 100000, None)
Dep(name) == Param(name, "dependent", 0 - 100000, 100000, None)
DepNoise(name, noise) == Param(name, "dependent", 0 - 100000, 100000, Some(noise))

IsDependent(param) == param.type = "dependent"
IsIndependent(param) == param.type = "independent"

\* rows and cols as Simulator.load counts them
Cols(params) == Len(params)
Rows(params) == Len(SelectSeq(params, IsDependent))

\* Row-major matrix data for a parameter list in FILE order: row i belongs to
\* the i-th dependent parameter, column j to the j-th parameter.
MkData(params, Coef(_, _)) ==
    LET deps == SelectSeq(params, IsDependent)
        cols == Len(params)
    IN [k \in 1..(Len(deps) * cols) |->
            Coef(deps[((k - 1) \div cols) + 1].name, params[((k - 1) % cols) + 1].name)]

\* A model file: the set of top-level keys present, dt, the parameter list,
\* and "A" as a JSON array with its nesting shape and its row-major elements.
File(keys, dt, params, dims, data) ==
    [keys |-> keys, dt |-> dt, parameters |-> params, A |-> [dims |-> dims, data |-> data]]

AllKeys == {"dt", "parameters", "A"}

GoodFile(dt, params, Coef(_, _)) ==
    File(AllKeys, dt, params, <<Rows(params) * Cols(params)>>, MkData(params, Coef))

\* -- coefficient rules (entries in 1/100)
CoefStd(d, n) ==
    IF d = n THEN (IF d = "airspeed" THEN 100 ELSE 50)
    ELSE IF n = "elevator" /\ d = "sin(alpha)" THEN 0 - 50
    ELSE IF n = "elevator" /\ d = "q" THEN 0 - 400
    ELSE IF n = "airspeed" /\ d = "sin(beta)" THEN 1
    ELSE 0

CoefNeg(d, n) ==
    IF d = "airspeed" /\ n = "elevator" THEN 200 ELSE CoefStd(d, n)

CoefSteep(d, n) ==
    IF n = "elevator" /\ d = "sin(alpha)" THEN 0 - 800
    ELSE IF n = "airspeed" /\ d = "sin(beta)" THEN 0 - 6
    ELSE CoefStd(d, n)

CoefZero(d, n) == 0

CoefAccel(d, n) ==
    IF d = n /\ d = "airspeed" THEN 100
    ELSE IF n = "airspeed" /\ d = "bax" THEN 0 - 100
    ELSE IF n = "airspeed" /\ d = "bay" THEN 30
    ELSE IF n = "airspeed" /\ d = "baz" THEN 0 - 40
    ELSE IF n = "elevator" /\ d = "q" THEN 0 - 400
    ELSE 0

CoefVel(d, n) ==
    IF d = n /\ d = "bvx" THEN 90
    ELSE IF n = "bvx" /\ d = "bvz" THEN 100
    ELSE IF n = "bvx" /\ d = "bvy" THEN 0 - 20
    ELSE IF n = "bax" /\ d = "bax" THEN 100
    ELSE IF n = "elevator" /\ d = "r" THEN 300
    ELSE 0

CoefTrim(d, n) ==
    IF d = n THEN 100
    ELSE IF n = "airspeed" /\ d = "p" THEN 2
    ELSE 0

\* -- parameter lists
ParamsStd ==
    << Ind("elevator"), Dep("airspeed"), Dep("sin(alpha)"), Dep("sin(beta)"),
       DepNoise("p", << <<50, 500>> >>), Dep("q"), Dep("r") >>

ParamsAccel ==
    << Ind("elevator"), Dep("airspeed"), Dep("bax"), Dep("bay"), Dep("baz"),
       Dep("p"), Dep("q"), Dep("r") >>

ParamsVel ==
    << Ind("elevator"), Dep("bvx"), Dep("bvy"), Dep("bvz"),
       Dep("p"), Dep("q"), Dep("r") >>

ParamsAccelVel ==
    << Ind("elevator"), Dep("bax"), Dep("bay"), Dep("baz"),
       Dep("bvx"), Dep("bvy"), Dep("bvz"), Dep("p"), Dep("q"), Dep("r") >>

ParamsNoRates ==
    << Ind("elevator"), Dep("airspeed"), Dep("sin(alpha)"), Dep("sin(beta)") >>

ParamsInterleaved ==
    << Dep("airspeed"), Ind("elevator"), Dep("p"), Dep("q"), Dep("r") >>

ParamsTrim ==
    << DepNoise("airspeed", << <<50, 100>>, <<100, 50>> >>), Dep("thrust"), Dep("drag"), Dep("bay"),
       DepNoise("p", << <<100, 200>>, <<25, 100>> >>), Dep("q"), Dep("r") >>

ParamsSmall == << Ind("elevator"), Dep("airspeed") >>

ParamsUneven ==
    << DepNoise("airspeed", << <<50, 100>> >>),
       DepNoise("p", << <<100, 200>>, <<25, 100>> >>), Dep("q"), Dep("r") >>

\* -- the files offered to Simulator.load
Files ==
    << GoodFile(100, ParamsStd, CoefStd),
       GoodFile(100, ParamsStd, CoefNeg),
       GoodFile(100, ParamsStd, CoefSteep),
       GoodFile(100, ParamsAccel, CoefAccel),
       GoodFile(100, ParamsVel, CoefVel),
       GoodFile(100, ParamsAccelVel, CoefVel),
       GoodFile(100, ParamsNoRates, CoefStd),
       GoodFile(100, ParamsInterleaved, CoefStd),
       GoodFile(200, ParamsTrim, CoefTrim),
       GoodFile(100, ParamsUneven, CoefTrim),
       GoodFile(100, ParamsStd, CoefZero),
       \* no "A"
       File({"dt", "parameters"}, 50, ParamsSmall, <<>>, <<>>),
       \* no "dt"
       File({"parameters", "A"}, 50, ParamsSmall, <<2>>, <<100, 100>>),
       \* no "parameters"
       File({"dt", "A"}, 50, <<>>, <<2>>, <<100, 100>>),
       \* A one element short
       File(AllKeys, 50, ParamsSmall, <<1>>, <<100>>),
       \* A nested as 2 rows x 1 column for a 1 x 2 model
       File(AllKeys, 50, ParamsSmall, <<2, 1>>, <<100, 100>>) >>

FileIds == 1..Len(Files)

\* ------------------------------------------------------------ StateManager
\* lib/state_mgr.py.  A vector of three is <<x, y, z>>.
StateManagerInit ==
    [ ind_states |-> <<>>, dep_states |-> <<>>, dt |-> None,
      time |-> 0, airspeed_mps |-> 0, qbar |-> 0,
      throttle |-> 0, aileron |-> 0, elevator |-> 0, rudder |-> 0,
      v_ned |-> <<0, 0, 0>>, wind_ned |-> <<0, 0, 0>>, wind |-> <<0, 0>>,
      v_body |-> <<0, 0, 0>>,
      phi_rad |-> 0, the_rad |-> 0, psi_rad |-> 0,
      p |-> 0, q |-> 0, r |-> 0, ax |-> 0, ay |-> 0, az |-> 0,
      alpha |-> 0, beta |-> 0,
      g_body |-> <<0, 0, 0>>, a_body |-> <<0, 0, 0>>,
      lift |-> 0, drag |-> 0, thrust |-> 0 ]

\* qbar = 0.5 * rho * airspeed^2 with rho = 1.225, i.e. (49/80) * airspeed^2
Qbar(airspeed) == IF IsNaN(airspeed) THEN NaN ELSE Quot(49 * airspeed * airspeed, 8000)

set_state_names(m, ind, dep) == [m EXCEPT !.ind_states = ind, !.dep_states = dep]

set_dt(m, dt) == [m EXCEPT !.dt = Some(dt)]

set_time(m, t) == [m EXCEPT !.time = t]

set_airdata(m, airspeed) == [m EXCEPT !.airspeed_mps = airspeed, !.qbar = Qbar(airspeed)]

set_throttle(m, throttle) == [m EXCEPT !.throttle = throttle]

set_flight_surfaces(m, aileron, elevator, rudder) ==
    [m EXCEPT !.aileron = aileron, !.elevator = elevator, !.rudder = rudder]

set_ned_velocity(m, vn, ve, vd, wn, we, wd) ==
    [m EXCEPT !.v_ned = <<vn, ve, vd>>, !.wind_ned = <<wn, we, wd>>]

set_wind(m, wn, we) == [m EXCEPT !.wind = <<wn, we>>]

set_body_velocity(m, bvx, bvy, bvz) == [m EXCEPT !.v_body = <<bvx, bvy, bvz>>]

set_orientation(m, phi, the, psi) ==
    [m EXCEPT !.phi_rad = phi, !.the_rad = the, !.psi_rad = psi]

set_gyros(m, p, q, r) == [m EXCEPT !.p = p, !.q = q, !.r = r]

set_accels(m, ax, ay, az) == [m EXCEPT !.ax = ax, !.ay = ay, !.az = az]

\* gravity, 9.81 m/s^2
Gravity == 981

\* compute_body_frame_values(compute_body_vel=False): gravity rotated into
\* the body frame, body acceleration less gravity, and the force terms.
\* Body velocity, alpha and beta are inputs here, not recomputed.
compute_body_frame_values(m) ==
    LET bgx == FNeg(FMul(Gravity, sin(m.the_rad), 1000))
        bgy == FMul(FMul(Gravity, sin(m.phi_rad), 1000), cos(m.the_rad), 1000)
        bgz == FMul(FMul(Gravity, cos(m.phi_rad), 1000), cos(m.the_rad), 1000)
        bax == FSub(m.ax, bgx)
        bay == FSub(m.ay, bgy)
        baz == FSub(m.az, bgz)
    IN [m EXCEPT !.g_body = <<bgx, bgy, bgz>>, !.a_body = <<bax, bay, baz>>,
                 !.thrust = m.throttle,
                 !.drag = FSub(m.throttle, bax),
                 !.lift = FNeg(baz)]

state_list(m) == m.ind_states \o m.dep_states

\* the entry of the state vector for one state name
StateValue(m, name) ==
    CASE name = "aileron"    -> FMul(m.aileron, m.qbar, 100)
      [] name = "elevator"   -> FMul(m.elevator, m.qbar, 100)
      [] name = "rudder"     -> FMul(m.rudder, m.qbar, 100)
      [] name = "airspeed"   -> m.airspeed_mps
      [] name = "sin(alpha)" -> FMul(sin(m.alpha), m.qbar, 1000)
      [] name = "sin(beta)"  -> FMul(sin(m.beta), m.qbar, 1000)
      [] name = "p"          -> m.p
      [] name = "q"          -> m.q
      [] name = "r"          -> m.r
      [] name = "ax"         -> m.ax
      [] name = "ay"         -> m.ay
      [] name = "az"         -> m.az
      [] name = "bvx"        -> m.v_body[1]
      [] name = "bvy"        -> m.v_body[2]
      [] name = "bvz"        -> m.v_body[3]
      [] name = "bax"        -> m.a_body[1]
      [] name = "bay"        -> m.a_body[2]
      [] name = "baz"        -> m.a_body[3]
      [] name = "bgx"        -> m.g_body[1]
      [] name = "bgy"        -> m.g_body[2]
      [] name = "bgz"        -> m.g_body[3]
      [] name = "lift"       -> m.lift
      [] name = "drag"       -> m.drag
      [] name = "thrust"     -> m.thrust
      [] OTHER               -> 0

Clamp(v, lo, hi) == IF FLt(v, lo) THEN lo ELSE IF FGt(v, hi) THEN hi ELSE v

\* gen_state_vector(params): the state vector in state_list order, entry j
\* held within the min/max of params[j]
gen_state_vector(m, params) ==
    LET names == state_list(m)
    IN [j \in 1..Len(names) |->
            IF j <= Len(params)
            THEN Clamp(StateValue(m, names[j]), params[j].min, params[j].max)
            ELSE StateValue(m, names[j])]

\* a dict pairing names[i] with vec[i]
ZipDict(names, vec) ==
    LET n == IF Len(vec) < Len(names) THEN Len(vec) ELSE Len(names)
    IN [k \in {names[i] : i \in 1..n} |-> vec[CHOOSE i \in 1..n : names[i] = k]]

state2dict(m, vec) == ZipDict(state_list(m), vec)

dep2dict(m, vec) == ZipDict(m.dep_states, vec)

\* --------------------------------------------------------------- Simulator
\* A call runs on a context c = [sim, sm, exc, out]: the Simulator's
\* attributes, its StateManager, the exception the call has raised so far
\* ("none" while it is running normally) and what the call showed of itself:
\* the branch of update it went through, what it printed, what it returned.
NoOut == [path |-> "unreached", printed |-> <<>>, returned |-> None]

Raise(c, e) == [c EXCEPT !.exc = e]

Ok(c) == c.exc = "none"

\* np.array(data).reshape(rows, cols)
Reshape(data, rows, cols) ==
    [i \in 1..rows |-> [j \in 1..cols |-> data[(i - 1) * cols + j]]]

NamesOfType(params, Test(_)) ==
    LET sel == SelectSeq(params, Test)
    IN [i \in 1..Len(sel) |-> sel[i].name]

NotIndependent(param) == ~IsIndependent(param)

\* Simulator.load
load(c, file) ==
    IF "parameters" \notin file.keys THEN Raise(c, "KeyError")
    ELSE
    LET params == file.parameters
        c1   == [c EXCEPT !.sim.params = Some(params)]
        cols == Len(params)
        rows == Len(SelectSeq(params, IsDependent))
    IN
    IF "dt" \notin file.keys THEN Raise(c1, "KeyError")
    ELSE
    LET c2 == [c1 EXCEPT !.sim.dt = Some(file.dt)]
    IN
    IF "A" \notin file.keys THEN Raise(c2, "KeyError")
    ELSE IF Len(file.A.data) # rows * cols THEN Raise(c2, "ValueError")
    ELSE
    LET ind_states == NamesOfType(params, IsIndependent)
        dep_states == NamesOfType(params, NotIndependent)
    IN [c2 EXCEPT !.sim.A = Some(Reshape(file.A.data, rows, cols)),
                  !.sm = set_dt(set_state_names(c2.sm, ind_states, dep_states), file.dt)]

initial_airspeed_mps == 1000

\* the Euler angles standing for the quaternion of an attitude
eul2quat(phi, the, psi) == <<phi, the, psi>>

\* Simulator.reset
reset(c) ==
    LET m1 == set_airdata(c.sm, initial_airspeed_mps)
        m2 == set_throttle(m1, 50)
        m3 == set_flight_surfaces(m2, 0, 0 - 10, 0)
        m4 == set_ned_velocity(m3, initial_airspeed_mps, 0, 0, 0, 0, 0)
        m5 == set_body_velocity(m4, initial_airspeed_mps, 0, 0)
        m6 == set_orientation(m5, 0, 0, 0)
        m7 == set_gyros(m6, 0, 0, 0)
        m8 == set_accels(m7, 0, 0, 0)
        m9 == set_time(m8, 0)
    IN [c EXCEPT
          !.sm = m9,
          !.sim = [c.sim EXCEPT
                     !.airspeed_mps = 0,
                     !.pos_ned = <<0, 0, 0>>,
                     !.vel_ned = <<initial_airspeed_mps, 0, 0>>,
                     !.phi_rad = 0, !.the_rad = 0, !.psi_rad = 0,
                     !.ned2body = eul2quat(0, 0, 0),
                     !.p = 0, !.q = 0, !.r = 0,
                     !.ax = 0, !.ay = 0, !.az = 0,
                     !.bvx = 0, !.bvy = 0, !.bvz = 0,
                     !.time = 0,
                     !.data = <<>>]]

\* Simulator.__init__: the attributes it creates, then reset().  params,
\* alpha, beta and trim_airspeed_mps do not exist yet (None).
SimulatorNew ==
    [ A |-> None, dt |-> None, trand |-> None, params |-> None,
      airspeed_mps |-> 0, pos_ned |-> <<0, 0, 0>>, vel_ned |-> <<0, 0, 0>>,
      phi_rad |-> 0, the_rad |-> 0, psi_rad |-> 0, ned2body |-> <<0, 0, 0>>,
      p |-> 0, q |-> 0, r |-> 0, ax |-> 0, ay |-> 0, az |-> 0,
      bvx |-> 0, bvy |-> 0, bvz |-> 0, time |-> 0, data |-> <<>>,
      alpha |-> None, beta |-> None, trim_airspeed_mps |-> None ]

Constructed ==
    reset([sim |-> SimulatorNew, sm |-> StateManagerInit, exc |-> "none", out |-> NoOut])

\* ------------------------------------------------------------------ update
RECURSIVE DotFrom(_, _, _)
DotFrom(row, vec, j) ==
    IF j > Len(row) THEN 0 ELSE row[j] * vec[j] + DotFrom(row, vec, j + 1)

\* A @ state
MatVec(A, state) ==
    [i \in 1..Len(A) |->
        IF \E j \in 1..Len(state) : IsNaN(state[j]) THEN NaN
        ELSE Quot(DotFrom(A[i], state, 1), 100)]

\* np.random.rand(n) * 2 * pi: the phase offsets a run can draw, for the
\* longest spectrum of the model files
Phases == {0, HalfPi}

SpectrumLengths ==
    UNION { { Len(Get(Files[f].parameters[i].noise)) :
                i \in {j \in 1..Len(Files[f].parameters) :
                          ~IsNone(Files[f].parameters[j].noise)} } :
            f \in FileIds }

LongestSpectrum == CHOOSE n \in SpectrumLengths : \A m \in SpectrumLengths : m <= n

PhaseDraws == [1..LongestSpectrum -> Phases]

\* sum over the spectrum of sin(trand[j] + time*2*pi*freq) * amp, from j on
RECURSIVE NoiseSum(_, _, _, _)
NoiseSum(noise, trand, time, j) ==
    IF j > Len(noise) THEN 0
    ELSE LET angle == trand[j] + Quot(Quot(2 * Pi * noise[j][1], 100) * time, 1000)
         IN Quot(sin(angle) * noise[j][2], 1000) + NoiseSum(noise, trand, time, j + 1)

\* Simulator.add_noise on n = [c, next], from index i (1-based) on
RECURSIVE add_noise_from(_, _, _)
add_noise_from(n, draw, i) ==
    IF ~Ok(n.c) \/ i > Len(n.next) THEN n
    ELSE
    LET params == Get(n.c.sim.params)
    IN
    IF i > Len(params) THEN [n EXCEPT !.c = Raise(n.c, "IndexError")]
    ELSE IF IsNone(params[i].noise) THEN add_noise_from(n, draw, i + 1)
    ELSE
    LET noise == Get(params[i].noise)
        c1    == IF IsNone(n.c.sim.trand)
                 THEN [n.c EXCEPT !.sim.trand = Some(SubSeq(draw, 1, Len(noise)))]
                 ELSE n.c
        trand == Get(c1.sim.trand)
    IN
    IF Len(noise) > Len(trand) THEN [n EXCEPT !.c = Raise(c1, "IndexError")]
    ELSE add_noise_from(
            [c |-> c1,
             next |-> [n.next EXCEPT ![i] = FAdd(@, NoiseSum(noise, trand, c1.sim.time, 1))]],
            draw, i + 1)

add_noise(c, next, draw) == add_noise_from([c |-> c, next |-> next], draw, 1)

Has(dict, key) == key \in DOMAIN dict

HasAll(dict, keys) == keys \subseteq DOMAIN dict

\* lines 177-183: the airspeed of this step
resolve_airspeed(c, result) ==
    IF Has(result, "airspeed")
    THEN [c EXCEPT !.sim.airspeed_mps = result["airspeed"]]
    ELSE IF ~HasAll(result, {"bvx", "bvy", "bvz"}) THEN Raise(c, "KeyError")
    ELSE [c EXCEPT !.sim.airspeed_mps = Norm3(result["bvx"], result["bvy"], result["bvz"])]

set_airspeed(c, result) ==
    LET c1 == resolve_airspeed(c, result)
    IN IF Ok(c1) THEN [c1 EXCEPT !.sm = set_airdata(c1.sm, c1.sim.airspeed_mps)] ELSE c1

\* lines 186-207: body velocity from the acceleration outputs
accel_path(c, result) ==
    IF ~HasAll(result, {"bax", "bay", "baz"})
    THEN Raise([c EXCEPT !.out.path = "accel"], "KeyError")
    ELSE
    LET dt   == Get(c.sim.dt)
        bvx0 == FAdd(c.sim.bvx, FMul(result["bax"], dt, 1000))
        bvy0 == FAdd(c.sim.bvy, FMul(result["bay"], dt, 1000))
        bvz0 == FAdd(c.sim.bvz, FMul(result["baz"], dt, 1000))
        bvx1 == IF FLt(bvx0, 10) THEN 10 ELSE bvx0
        bvy1 == IF FGt(FAbs(FDiv(bvy0, bvx1, 1000)), 100)
                THEN FMul(Sign(bvy0) * Abs(bvx1), 10, 100) ELSE bvy0
        bvz1 == IF FGt(FAbs(FDiv(bvz0, bvx1, 1000)), 100)
                THEN FMul(Sign(bvz0) * Abs(bvx1), 10, 100) ELSE bvz0
        scale == FDiv(c.sim.airspeed_mps, Norm3(bvx1, bvy1, bvz1), 1000)
        v1 == FMul(bvx1, scale, 1000)
        v2 == FMul(bvy1, scale, 1000)
        v3 == FMul(bvz1, scale, 1000)
    IN [c EXCEPT !.sim.bvx = v1, !.sim.bvy = v2, !.sim.bvz = v3,
                 !.sm = set_body_velocity(c.sm, v1, v2, v3),
                 !.sim.alpha = Some(atan2(v3, v1)),
                 !.sim.beta = Some(atan2(FNeg(v2), v1)),
                 !.out.path = "accel"]

\* lines 208-214: body velocity taken from the velocity outputs
velocity_path(c, result) ==
    IF ~HasAll(result, {"bvx", "bvy", "bvz"})
    THEN Raise([c EXCEPT !.out.path = "velocity"], "KeyError")
    ELSE
    LET bvx == result["bvx"]
        bvy == result["bvy"]
        bvz == result["bvz"]
    IN [c EXCEPT !.sim.bvx = bvx, !.sim.bvy = bvy, !.sim.bvz = bvz,
                 !.sm = set_body_velocity(c.sm, bvx, bvy, bvz),
                 !.sim.alpha = Some(atan2(bvz, bvx)),
                 !.sim.beta = Some(atan2(FNeg(bvy), bvx)),
                 !.out.path = "velocity"]

\* 25 * d2r
max_angle == 436

\* lines 215-243: body velocity from sin(alpha), sin(beta) and the airspeed
trig_path(c, result) ==
    IF ~HasAll(result, {"sin(alpha)", "sin(beta)"})
    THEN Raise([c EXCEPT !.out.path = "trig"], "KeyError")
    ELSE
    LET qbar     == c.sm.qbar
        s_alpha0 == FDiv(result["sin(alpha)"], qbar, 1000)
        s_beta0  == FDiv(result["sin(beta)"], qbar, 1000)
        s_alpha1 == IF FGt(s_alpha0, 1000) THEN 1000 ELSE s_alpha0
        s_alpha  == IF FLt(s_alpha1, 0 - 1000) THEN 0 - 1000 ELSE s_alpha1
        s_beta1  == IF FGt(s_beta0, 1000) THEN 1000 ELSE s_beta0
        s_beta   == IF FLt(s_beta1, 0 - 1000) THEN 0 - 1000 ELSE s_beta1
        alpha0   == asin(s_alpha)
        beta0    == asin(s_beta)
        alpha1   == IF FGt(alpha0, max_angle) THEN max_angle ELSE alpha0
        alpha    == IF FLt(alpha1, 0 - max_angle) THEN 0 - max_angle ELSE alpha1
        beta1    == IF FGt(beta0, max_angle) THEN max_angle ELSE beta0
        beta     == IF FLt(beta1, 0 - max_angle) THEN 0 - max_angle ELSE beta1
        bvx      == FMul(cos(alpha), c.sim.airspeed_mps, 1000)
        bvy      == FMul(sin(beta), c.sim.airspeed_mps, 1000)
        bvz      == FMul(sin(alpha), c.sim.airspeed_mps, 1000)
        m1       == [c.sm EXCEPT !.alpha = alpha, !.beta = beta]
    IN [c EXCEPT !.sim.bvx = bvx, !.sim.bvy = bvy, !.sim.bvz = bvz,
                 !.sm = set_body_velocity(m1, bvx, bvy, bvz),
                 !.out.path = "trig"]

\* resolve_velocity with the acceleration path taken on bax alone
resolve_velocity_bax_only(c, result) ==
    IF Has(result, "bax") THEN accel_path(c, result)
    ELSE IF Has(result, "bvx") THEN velocity_path(c, result)
    ELSE IF Has(result, "sin(alpha)") THEN trig_path(c, result)
    ELSE [c EXCEPT !.out.path = "none"]

\* lines 186-243: the branch taken
resolve_velocity(c, result) ==
    IF Has(result, "bax") /\ Has(result, "airspeed") THEN accel_path(c, result)
    ELSE IF Has(result, "bvx") THEN velocity_path(c, result)
    ELSE IF Has(result, "sin(alpha)") THEN trig_path(c, result)
    ELSE [c EXCEPT !.out.path = "none"]

\* lines 245-253: angular rates and, when the model has them, accelerations
set_rates(c, result) ==
    IF ~HasAll(result, {"p", "q", "r"}) THEN Raise(c, "KeyError")
    ELSE
    LET p  == result["p"]
        q  == result["q"]
        r  == result["r"]
        c1 == [c EXCEPT !.sim.p = p, !.sim.q = q, !.sim.r = r,
                        !.sm = set_gyros(c.sm, p, q, r)]
    IN
    IF ~Has(result, "ax") THEN c1
    ELSE IF ~HasAll(result, {"ay", "az"}) THEN Raise([c1 EXCEPT !.sim.ax = result["ax"]], "KeyError")
    ELSE [c1 EXCEPT !.sim.ax = result["ax"], !.sim.ay = result["ay"], !.sim.az = result["az"],
                    !.sm = set_accels(c1.sm, result["ax"], result["ay"], result["az"])]

FWrap(a) == IF IsNaN(a) THEN NaN ELSE Wrap(a)

\* quaternion.multiply on the Euler-angle form: the rotation q2 applied after
\* q1, to first order in q2
multiply(q1, q2) ==
    <<FWrap(FAdd(q1[1], q2[1])), FWrap(FAdd(q1[2], q2[2])), FWrap(FAdd(q1[3], q2[3]))>>

quat2eul(q) == q

\* quaternion.backTransform: a body-frame vector rotated into the NED frame
backTransform(q, v) ==
    LET sph == sin(q[1])  cph == cos(q[1])
        sth == sin(q[2])  cth == cos(q[2])
        sps == sin(q[3])  cps == cos(q[3])
        M(a, b) == FMul(a, b, 1000)
        r11 == M(cth, cps)
        r12 == FSub(M(M(sph, sth), cps), M(cph, sps))
        r13 == FAdd(M(M(cph, sth), cps), M(sph, sps))
        r21 == M(cth, sps)
        r22 == FAdd(M(M(sph, sth), sps), M(cph, cps))
        r23 == FSub(M(M(cph, sth), sps), M(sph, cps))
        r31 == FNeg(sth)
        r32 == M(sph, cth)
        r33 == M(cph, cth)
        Row(a, b, d) == FAdd(FAdd(M(a, v[1]), M(b, v[2])), M(d, v[3]))
    IN <<Row(r11, r12, r13), Row(r21, r22, r23), Row(r31, r32, r33)>>

\* lines 255-274: attitude, NED velocity and position
integrate(c) ==
    LET dt       == Get(c.sim.dt)
        rot_body == eul2quat(FMul(c.sim.p, dt, 1000), FMul(c.sim.q, dt, 1000),
                             FMul(c.sim.r, dt, 1000))
        ned2body == multiply(c.sim.ned2body, rot_body)
        eul      == quat2eul(ned2body)
        m1       == compute_body_frame_values(set_orientation(c.sm, eul[1], eul[2], eul[3]))
        vel_ned  == backTransform(ned2body, <<c.sim.bvx, c.sim.bvy, c.sim.bvz>>)
        m2       == set_ned_velocity(m1, vel_ned[1], vel_ned[2], vel_ned[3], 0, 0, 0)
        pos_ned  == [k \in 1..3 |-> FAdd(c.sim.pos_ned[k], FMul(vel_ned[k], dt, 1000))]
    IN [c EXCEPT !.sim.ned2body = ned2body,
                 !.sim.phi_rad = eul[1], !.sim.the_rad = eul[2], !.sim.psi_rad = eul[3],
                 !.sim.vel_ned = vel_ned, !.sim.pos_ned = pos_ned,
                 !.sm = m2]

\* lines 276-287: the trajectory sample
Sample(c) ==
    [ time |-> c.sim.time, airspeed |-> c.sim.airspeed_mps,
      throttle |-> c.sm.throttle, aileron |-> c.sm.aileron,
      elevator |-> c.sm.elevator, rudder |-> c.sm.rudder,
      phi |-> c.sim.phi_rad, the |-> c.sim.the_rad, psi |-> c.sim.psi_rad,
      alpha |-> c.sm.alpha, beta |-> c.sm.beta,
      p |-> c.sim.p, q |-> c.sim.q, r |-> c.sim.r,
      pos_ned |-> c.sim.pos_ned, vel_ned |-> c.sim.vel_ned ]

\* lines 276-290
store(c) ==
    [c EXCEPT !.sim.data = Append(@, Sample(c)),
              !.sim.time = c.sim.time + Get(c.sim.dt)]

Then(c, Step(_)) == IF Ok(c) THEN Step(c) ELSE c

\* Simulator.update; draw is the random draw add_noise may consume
update(c0, draw) ==
    LET c == [c0 EXCEPT !.exc = "none", !.out = NoOut]
    IN
    IF IsNone(c.sim.params) THEN Raise(c, "AttributeError")
    ELSE IF IsNone(c.sim.A) THEN Raise(c, "TypeError")
    ELSE
    LET state == gen_state_vector(c.sm, Get(c.sim.params))
        n     == add_noise(c, MatVec(Get(c.sim.A), state), draw)
        result == dep2dict(n.c.sm, n.next)
        SetAirspeed(x) == set_airspeed(x, result)
        ResolveVelocity(x) == resolve_velocity(x, result)
        SetRates(x) == set_rates(x, result)
    IN Then(Then(Then(Then(Then(n.c, SetAirspeed), ResolveVelocity), SetRates),
                 integrate), store)

\* -------------------------------------------------------------------- trim
\* lines 95-104: the trial point xk =
\* <<throttle, aileron, elevator, rudder, phi, theta>> written into the
\* StateManager
trim_setup(c, xk) ==
    LET trim_airspeed_mps == Get(c.sim.trim_airspeed_mps)
    IN [c EXCEPT !.sm =
          compute_body_frame_values(
            set_ned_velocity(
              set_gyros(
                set_wind(
                  set_airdata(
                    [set_orientation(
                       set_flight_surfaces(set_throttle(c.sm, xk[1]), xk[2], xk[3], xk[4]),
                       xk[5], xk[6], 0) EXCEPT !.alpha = xk[6]],
                    trim_airspeed_mps),
                  0, 0),
                0, 0, 0),
              trim_airspeed_mps, 0, 0, 0, 0, 0))]

\* lines 105-123: the prediction from that StateManager and its residuals
trim_residuals(c1) ==
    IF IsNone(c1.sim.params) THEN Raise(c1, "AttributeError")
    ELSE IF IsNone(c1.sim.A) THEN Raise(c1, "TypeError")
    ELSE
    LET trim_airspeed_mps == Get(c1.sim.trim_airspeed_mps)
        state  == gen_state_vector(c1.sm, Get(c1.sim.params))
        next   == MatVec(Get(c1.sim.A), state)
        result == state2dict(c1.sm, next)
    IN
    IF ~HasAll(result, {"airspeed", "thrust", "drag", "bay", "p", "q", "r"})
    THEN Raise(c1, "KeyError")
    ELSE
    LET next_asi == IF FLt(result["airspeed"], 0) THEN 0 ELSE result["airspeed"]
        errors   == << FSub(trim_airspeed_mps, next_asi),
                       FSub(result["thrust"], result["drag"]),
                       result["bay"], result["p"], result["q"], result["r"] >>
    IN [c1 EXCEPT !.out.returned = Some(errors)]

\* Simulator.trim_error at the trial point xk; returns the residuals
trim_error(c, xk) ==
    LET ready == { trim_setup(c0, xk) : c0 \in {c} }
    IN CHOOSE after \in { trim_residuals(c1) : c1 \in ready } : TRUE

\* the starting point of the search, line 127
initial == <<50, 0, 0, 0, 0, 80>>

\* points the solver may try and may end on
TrialPoints == { initial, <<60, 1, 0 - 5, 2, 10, 50>> }

TrimSpeeds == {1500}

\* Simulator.trim: least_squares evaluates trim_error at initial, then at
\* further trial points, the last of them being `last`; it ends with
\* res.x = x and res.success = success.
trim(c0, airspeed_mps, last, x, success) ==
    LET c  == [c0 EXCEPT !.exc = "none", !.out = NoOut,
                         !.sim.trim_airspeed_mps = Some(airspeed_mps)]
        c1 == trim_error(c, initial)
        c2 == Then(c1, LAMBDA y : trim_error(y, last))
    IN
    IF ~Ok(c2) THEN [c2 EXCEPT !.out = NoOut]
    ELSE [c2 EXCEPT !.out = [ path |-> "unreached",
                              printed |-> [ res |-> [x |-> x, success |-> success],
                                            throttle |-> x[1],
                                            aileron |-> x[2],
                                            elevator |-> x[3],
                                            rudder |-> x[4],
                                            phi |-> x[4],
                                            theta |-> x[5] ],
                              returned |-> None ]]

\* ------------------------------------------------------- build_full_model
\* One record of the flight log as flight_interp.IterateGroup hands it out:
\* the groups it holds and, for an "air" group, whether the airspeed it
\* carries is a flying airspeed.
Rec(groups, fast) == [groups |-> groups, fast |-> fast]

RecordKinds ==
    { Rec({}, FALSE),
      Rec({"imu"}, FALSE),
      Rec({"gps"}, FALSE),
      Rec({"air"}, TRUE),
      Rec({"air"}, FALSE),
      Rec({"imu", "filter"}, FALSE),
      Rec({"imu", "act", "air", "filter", "gps"}, TRUE) }

RECURSIVE SeqsUpTo(_, _)
SeqsUpTo(S, n) ==
    IF n = 0 THEN {<<>>}
    ELSE LET shorter == SeqsUpTo(S, n - 1)
         IN shorter \cup {Append(q, x) : q \in {t \in shorter : Len(t) = n - 1}, x \in S}

FlightLogs == SeqsUpTo(RecordKinds, MaxRecords)

\* len(data[group])
CountGroup(log, group) == Cardinality({i \in 1..Len(log) : group \in log[i].groups})

\* the script before it runs
FitIdle ==
    [ pc |-> "idle", log |-> <<>>, i |-> 0, printed |-> {}, exc |-> "none",
      wind_set |-> FALSE, flying_airspeed |-> FALSE, dt_data |-> 0,
      traindata |-> 0, coeff |-> 0, saved |-> FALSE ]

\* StateManager.is_flying: the airspeed gate
is_flying(f) == f.flying_airspeed

\* lines 53-63: load the log, print the record counts, stop on an empty log
FitLoadLog(log) ==
    /\ fit.pc = "idle"
    /\ LET n_imu == CountGroup(log, "imu")
           n_gps == CountGroup(log, "gps")
           f1 == [fit EXCEPT !.log = log,
                             !.printed = @ \cup {"imu records:", "gps records:"}]
       IN fit' = IF n_imu = 0 /\ n_gps = 0
                 THEN [f1 EXCEPT !.printed = @ \cup {"not enough data loaded to continue."},
                                 !.pc = "quit"]
                 ELSE [f1 EXCEPT !.pc = "estimate_dt"]
    /\ UNCHANGED <<sim, sm, exc, out, op, since, made>>

\* lines 65-85: the median dt of the IMU records (nan for none, no exception)
FitEstimateDt ==
    /\ fit.pc = "estimate_dt"
    /\ fit' = [fit EXCEPT !.dt_data = CountGroup(fit.log, "imu"),
                          !.printed = @ \cup {"imu dt:"},
                          !.pc = "parse", !.i = 1]
    /\ UNCHANGED <<sim, sm, exc, out, op, since, made>>

\* lines 97-147: one turn of the training pass
parse_record(f, record) ==
    IF record.groups = {} THEN f
    ELSE
    LET f1 == IF "air" \in record.groups
              THEN [f EXCEPT !.flying_airspeed = record.fast, !.wind_set = TRUE]
              ELSE f
    IN
    IF "filter" \in record.groups /\ ~f1.wind_set
    THEN [f1 EXCEPT !.exc = "NameError", !.pc = "crashed"]
    ELSE IF is_flying(f1)
    THEN [f1 EXCEPT !.traindata = @ + 1, !.coeff = @ + 1]
    ELSE f1

FitParseRecord ==
    /\ fit.pc = "parse"
    /\ fit.i <= Len(fit.log)
    /\ LET f1 == parse_record(fit, fit.log[fit.i])
       IN fit' = IF f1.exc = "none" THEN [f1 EXCEPT !.i = @ + 1] ELSE f1
    /\ UNCHANGED <<sim, sm, exc, out, op, since, made>>

\* lines 149-155: the mean drag coefficient and the alpha/Cl/Cd plot;
\* coeff[:,2] on an empty array is an IndexError
FitCoeff ==
    /\ fit.pc = "parse"
    /\ fit.i > Len(fit.log)
    /\ fit' = IF fit.coeff = 0
              THEN [fit EXCEPT !.exc = "IndexError", !.pc = "crashed"]
              ELSE [fit EXCEPT !.printed = @ \cup {"Cd ="}, !.pc = "count"]
    /\ UNCHANGED <<sim, sm, exc, out, op, since, made>>

\* lines 157-159
FitCount ==
    /\ fit.pc = "count"
    /\ fit' = IF fit.traindata = 0
              THEN [fit EXCEPT !.exc = "IndexError", !.pc = "crashed"]
              ELSE [fit EXCEPT !.printed = @ \cup {"Number of states:", "Input state vectors:"},
                               !.pc = "fit"]
    /\ UNCHANGED <<sim, sm, exc, out, op, since, made>>

\* line 161
FitFit ==
    /\ fit.pc = "fit"
    /\ fit' = [fit EXCEPT !.pc = "analyze"]
    /\ UNCHANGED <<sim, sm, exc, out, op, since, made>>

\* line 162
FitAnalyze ==
    /\ fit.pc = "analyze"
    /\ fit' = [fit EXCEPT !.pc = "save"]
    /\ UNCHANGED <<sim, sm, exc, out, op, since, made>>

\* line 163
FitSave ==
    /\ fit.pc = "save"
    /\ fit' = [fit EXCEPT !.saved = TRUE, !.pc = "rollout"]
    /\ UNCHANGED <<sim, sm, exc, out, op, since, made>>

\* lines 170-205
FitRollout ==
    /\ fit.pc = "rollout"
    /\ fit' = [fit EXCEPT !.pc = "done"]
    /\ UNCHANGED <<sim, sm, exc, out, op, since, made>>

\* ----------------------------------------------------------------- actions
\* update calls made since the last reset
calls == Len(SelectSeq(since, LAMBDA name : name = "update"))

Cur == [sim |-> sim, sm |-> sm, exc |-> "none", out |-> NoOut]

Becomes(c) == sim' = c.sim /\ sm' = c.sm /\ exc' = c.exc /\ out' = c.out

Load(f) ==
    /\ made < MaxCalls
    /\ Becomes(load(Cur, Files[f]))
    /\ op' = [name |-> "load", arg |-> <<f>>]
    /\ made' = made + 1
    /\ since' = Append(since, "load")
    /\ UNCHANGED fit

Reset ==
    /\ made < MaxCalls
    /\ Becomes(reset(Cur))
    /\ op' = [name |-> "reset", arg |-> <<>>]
    /\ since' = <<>>
    /\ made' = made + 1
    /\ UNCHANGED fit

\* np.random.rand is called only while trand is None
Draws == IF IsNone(sim.trand) THEN PhaseDraws ELSE {<<>>}

Update(draw) ==
    /\ calls < MaxUpdates
    /\ draw \in Draws
    /\ Becomes(update(Cur, draw))
    /\ op' = [name |-> "update", arg |-> <<>>]
    /\ since' = Append(since, "update")
    /\ UNCHANGED <<made, fit>>

Trim(airspeed_mps, last, x, success) ==
    /\ made < MaxCalls
    /\ Becomes(trim(Cur, airspeed_mps, last, x, success))
    /\ op' = [name |-> "trim", arg |-> <<airspeed_mps>>]
    /\ made' = made + 1
    /\ since' = Append(since, "trim")
    /\ UNCHANGED fit

Init ==
    /\ sim = Constructed.sim
    /\ sm = Constructed.sm
    /\ exc = "none"
    /\ out = NoOut
    /\ op = [name |-> "init", arg |-> <<>>]
    /\ since = <<>>
    /\ made = 0
    /\ fit = FitIdle

Next ==
    \/ \E f \in FileIds : Load(f)
    \/ Reset
    \/ \E draw \in PhaseDraws \cup {<<>>} : Update(draw)
    \/ \E a \in TrimSpeeds, last \in TrialPoints, x \in TrialPoints, success \in BOOLEAN :
          Trim(a, last, x, success)

\* a driver that loads one model into a new Simulator, then resets and steps
NextRun ==
    \/ \E f \in FileIds : IsNone(sim.A) /\ Load(f)
    \/ Reset
    \/ \E draw \in PhaseDraws \cup {<<>>} : Update(draw)

SpecRun == Init /\ [][NextRun]_vars

Spec == Init /\ [][Next]_vars

NextFit ==
    \/ \E log \in FlightLogs : FitLoadLog(log)
    \/ FitEstimateDt
    \/ FitParseRecord
    \/ FitCoeff
    \/ FitCount
    \/ FitFit
    \/ FitAnalyze
    \/ FitSave
    \/ FitRollout

SpecFit == Init /\ [][NextFit]_vars

\* ------------------------------------------------------------- properties
\* the Simulator holds one model, whole: params, dt, A and the StateManager's
\* state names and dt all come from the same accepted load
ModelInstalled ==
    /\ ~IsNone(sim.params) /\ ~IsNone(sim.dt) /\ ~IsNone(sim.A)
    /\ Len(Get(sim.A)) = Rows(Get(sim.params))
    /\ sm.dt = sim.dt
    /\ sm.ind_states = NamesOfType(Get(sim.params), IsIndependent)
    /\ sm.dep_states = NamesOfType(Get(sim.params), NotIndependent)

\* the dependent outputs update sees: the keys of dep2dict(next)
Outputs ==
    IF IsNone(sim.A) THEN {}
    ELSE LET n == IF Len(Get(sim.A)) < Len(sm.dep_states)
                  THEN Len(Get(sim.A)) ELSE Len(sm.dep_states)
         IN {sm.dep_states[i] : i \in 1..n}

Within(a, lo, hi) == ~IsNaN(a) /\ lo <= a /\ a <= hi

\* C1: on a loaded model every update call returns without raising and
\* appends a trajectory sample.
C1_UpdateNeverRaises ==
    (op.name = "update" /\ ModelInstalled) => (exc = "none" /\ sim.data # <<>>)

\* C2: after every update step the airspeed the simulator holds, hands to
\* the StateManager and stores in the trajectory sample is >= 0.
C2_AirspeedNonNegative ==
    (op.name = "update" /\ ModelInstalled /\ exc = "none") =>
        /\ Within(sim.airspeed_mps, 0, Inf)
        /\ Within(sm.airspeed_mps, 0, Inf)
        /\ Within(sim.data[Len(sim.data)].airspeed, 0, Inf)

\* C3: after every update step, whichever of the three velocity paths it
\* took, the angle of attack and the sideslip that path produced are within
\* +-25 degrees.
C3_AnglesWithinEnvelope ==
    (op.name = "update" /\ ModelInstalled /\ exc = "none") =>
        /\ out.path \in {"accel", "velocity"} =>
              /\ Within(Get(sim.alpha), 0 - max_angle, max_angle)
              /\ Within(Get(sim.beta), 0 - max_angle, max_angle)
        /\ out.path = "trig" =>
              /\ Within(sm.alpha, 0 - max_angle, max_angle)
              /\ Within(sm.beta, 0 - max_angle, max_angle)

\* a model file that misses a required field, or whose A is neither the flat
\* row-major list of rows*cols entries nor a rows x cols nesting
WellShaped(file) ==
    LET rows == Rows(file.parameters)
        cols == Cols(file.parameters)
    IN /\ file.A.dims \in { <<rows * cols>>, <<rows, cols>> }
       /\ Len(file.A.data) = rows * cols

Malformed(file) == file.keys # AllKeys \/ ~WellShaped(file)

\* C4: load of a malformed model file raises and leaves the Simulator and
\* its StateManager as they were.
C4_MalformedRejected ==
    [][ (op'.name = "load" /\ Malformed(Files[op'.arg[1]])) =>
            (exc' # "none" /\ sim' = sim /\ sm' = sm) ]_vars

\* the names of a parameter list, in order
Names(params) == [i \in 1..Len(params) |-> params[i].name]

\* C5: after every load that succeeds, the state-name order installed in the
\* StateManager is the parameter list order of the file, and the dependent
\* names are the dependent parameters in that order.
C5_OrderIsFileOrder ==
    (op.name = "load" /\ exc = "none") =>
        /\ state_list(sm) = Names(Files[op.arg[1]].parameters)
        /\ sm.dep_states = NamesOfType(Files[op.arg[1]].parameters, IsDependent)

\* C6: a trim whose solver did not converge still returns; it hands the best
\* iterate back to the caller and prints each of the six unknowns under its
\* own name.
C6_TrimReportsIterate ==
    (op.name = "trim" /\ exc = "none" /\ ~out.printed.res.success) =>
        LET x == out.printed.res.x
        IN /\ out.returned = Some(x)
           /\ out.printed.throttle = x[1]
           /\ out.printed.aileron = x[2]
           /\ out.printed.elevator = x[3]
           /\ out.printed.rudder = x[4]
           /\ out.printed.phi = x[5]
           /\ out.printed.theta = x[6]

\* the training pass has run over the whole log
TrainingPassDone ==
    /\ fit.pc \notin {"idle", "quit", "estimate_dt", "parse"}
    /\ fit.i > Len(fit.log)

\* C7: when the training pass ends with no airborne sample at all, the script
\* has reported it and stopped: it is not past the pass by any other way,
\* neither on its way to fit, analyze and save nor stopped by an exception.
C7_NoSamplesAborts ==
    (TrainingPassDone /\ fit.traindata = 0) =>
        (fit.pc = "quit" /\ "not enough data loaded to continue." \in fit.printed)

\* A @ state of the step about to be taken, before any noise
CleanNext == MatVec(Get(sim.A), gen_state_vector(sm, Get(sim.params)))

ParamNamed(name) ==
    LET params == Get(sim.params)
    IN params[CHOOSE i \in 1..Len(params) : params[i].name = name]

DepIndex(name) == CHOOSE i \in 1..Len(sm.dep_states) : sm.dep_states[i] = name

\* the step leaves in `got` the prediction for the dependent parameter
\* `name`, plus the sinusoids of that parameter's own spectrum, if it has one
NoisedByOwnSpectrum(name, got) ==
    LET prm == ParamNamed(name)
    IN IF IsNone(prm.noise) THEN got = CleanNext[DepIndex(name)]
       ELSE /\ ~IsNone(sim'.trand)
            /\ Len(Get(sim'.trand)) >= Len(Get(prm.noise))
            /\ got = FAdd(CleanNext[DepIndex(name)],
                          NoiseSum(Get(prm.noise), Get(sim'.trand), sim.time, 1))

\* C8: in every update the rate outputs p, q and r each come out as their
\* predicted value plus the sinusoids of their own noise spectrum at the
\* current time, and as the bare prediction when they have no spectrum.
C8_NoiseOnOwnParameter ==
    [][ (op'.name = "update" /\ ModelInstalled /\ exc' = "none") =>
            /\ NoisedByOwnSpectrum("p", sim'.p)
            /\ NoisedByOwnSpectrum("q", sim'.q)
            /\ NoisedByOwnSpectrum("r", sim'.r) ]_vars

\* the update got as far as choosing a velocity path
PathChosen == op.name = "update" /\ out.path # "unreached"

\* C9 as stated: the acceleration path whenever bax is an output, else the
\* velocity path when bvx is one, else the sin(alpha)/sin(beta) path.
C9_AccelWheneverPresent ==
    PathChosen =>
        out.path = IF "bax" \in Outputs THEN "accel"
                   ELSE IF "bvx" \in Outputs THEN "velocity"
                   ELSE "trig"

\* C9 (amended): the acceleration path when bax and airspeed are both
\* outputs; else the velocity path when bvx is one; else the
\* sin(alpha)/sin(beta) path when sin(alpha) is one; else no path at all.
\* Every update that returns has made this choice.
C9_PathPriority ==
    /\ PathChosen =>
          out.path = IF "bax" \in Outputs /\ "airspeed" \in Outputs THEN "accel"
                     ELSE IF "bvx" \in Outputs THEN "velocity"
                     ELSE IF "sin(alpha)" \in Outputs THEN "trig"
                     ELSE "none"
    /\ (op.name = "update" /\ exc = "none") => out.path # "unreached"

\* an update that had bax but no airspeed among its outputs and went down
\* the velocity path
C9_Witness ==
    /\ op.name = "update" /\ exc = "none"
    /\ "bax" \in Outputs /\ "airspeed" \notin Outputs
    /\ out.path = "velocity"
    /\ sim.bvx = sm.v_body[1]

\* since the last reset no model was loaded after an update was made
NoLoadAfterUpdate ==
    \A i, j \in 1..Len(since) : (i < j /\ since[i] = "update") => since[j] # "load"

\* C10: after reset and n update calls on the model installed, the history
\* holds n samples, sample k (from 0) is stamped k*dt, and time is n*dt.
C10_HistoryMatchesCalls ==
    (ModelInstalled /\ NoLoadAfterUpdate) =>
        /\ Len(sim.data) = calls
        /\ sim.time = calls * Get(sim.dt)
        /\ \A k \in 1..Len(sim.data) : sim.data[k].time = (k - 1) * Get(sim.dt)

\* reset on a freshly constructed Simulator into which the model now
\* installed has just been loaded
FreshReset ==
    reset([ sim |-> [SimulatorNew EXCEPT !.params = sim.params, !.dt = sim.dt,
                                         !.A = sim.A],
            sm  |-> [StateManagerInit EXCEPT !.ind_states = sm.ind_states,
                                             !.dep_states = sm.dep_states,
                                             !.dt = sm.dt],
            exc |-> "none", out |-> NoOut ])

\* the Simulator's attributes less those no update reads before it writes
\* them (alpha, beta, trim_airspeed_mps) and less the noise phase offsets
Resettable(s) ==
    [s EXCEPT !.trand = None, !.alpha = None, !.beta = None,
              !.trim_airspeed_mps = None]

\* C11: after every reset on a loaded model, whatever update and trim calls
\* came before, the Simulator and its StateManager are in the state that
\* reset gives on a freshly loaded Simulator (noise phase offsets aside), so
\* the updates that follow start from the same state vector.
C11_ResetRestoresInitial ==
    (op.name = "reset" /\ exc = "none" /\ ModelInstalled) =>
        /\ Resettable(sim) = Resettable(FreshReset.sim)
        /\ sm = FreshReset.sm
        /\ gen_state_vector(sm, Get(sim.params)) =
              gen_state_vector(FreshReset.sm, Get(sim.params))

====
